---- MODULE Spec2Model ----
(***************************************************************************)
(* Model of DataprocClusterManager (apache_beam/runners/interactive/       *)
(* dataproc/dataproc_cluster_manager.py): the lifecycle of one Dataproc    *)
(* cluster, with the cluster-control RPC client and the GCS file system    *)
(* as its environment.                                                     *)
(*                                                                         *)
(* A Python str is a sequence of one-character strings, so that `in`,      *)
(* str.split and re.sub are computed character by character.  Every step   *)
(* of a method that talks to the control plane or to the object store is   *)
(* an action; the calls an invocation makes are recorded in calls[t].      *)
(***************************************************************************)
EXTENDS Integers, Sequences, FiniteSets, TLC

VARIABLES
  master_url,         \* cluster_metadata.master_url
  dashboard,          \* cluster_metadata.dashboard
  staging_directory,  \* self._staging_directory
  cluster,            \* control plane: state of the cluster named by the metadata
  store,              \* object store: the set of objects that exist
  pc,                 \* pc[t]: where thread t stands in the method it runs
  op,                 \* op[t]: the public method thread t runs
  arg,                \* arg[t]: the arguments of the method thread t runs
  calls,              \* calls[t]: external calls and assignments of this invocation
  result,             \* result[t]: how the invocation ended
  pre,                \* pre[t]: manager fields when the invocation started
  startup_logs,       \* startup_logs[t]: logs get_master_url_and_dashboard has yet to open
  staging_files,      \* staging_files[t]: the listing cleanup_staging_files deletes
  decoded_line,       \* decoded_line[t]: the marker line to parse
  polls,              \* polls[t]: sleeps of the current wait_for_cluster_to_provision
  create_succeeded,   \* history: some create RPC has returned success
  lifecycle,          \* history, kept by LifecycleSpec: "new", then "created"
                      \* once a create_cluster that created the cluster has
                      \* returned, then "deleted" once a cleanup after it has
                      \* returned; "unobserved" where it is not kept
  result_state,       \* result.state of the pipeline result last recorded
  tl                  \* tl[p]: the Timeloop visualize started for PCollection p

vars == <<master_url, dashboard, staging_directory, cluster, store, pc, op, arg,
          calls, result, pre, startup_logs, staging_files, decoded_line, polls,
          create_succeeded, lifecycle, result_state, tl>>

----------------------------------------------------------------------------
(* Bounds *)

\* Sleeps one wait_for_cluster_to_provision may take before the cluster must
\* have left CREATING.
MaxPolls == 2

\* The largest n head is called with.
MaxHead == 2

Threads == {"t1", "t2"}

\* The thread of the sequential specification.
Main == "t1"

----------------------------------------------------------------------------
(* Python values *)

\* The None object: equal to no str (a str has one character per element).
None == <<"None">>

\* Mutant: only '' is falsy.
TruthyNotEmpty(x) == x # <<>>

\* bool(x) of an Optional[str]: None and '' are falsy.
Truthy(x) == x # None /\ x # <<>>

\* sub in s, at position i.
MatchAt(sub, s, i) ==
  /\ i >= 1
  /\ i + Len(sub) - 1 <= Len(s)
  /\ SubSeq(s, i, i + Len(sub) - 1) = sub

\* str.find, 1-based; 0 when sub does not occur.
Find(sub, s) ==
  LET hits == {i \in 1..Len(s) : MatchAt(sub, s, i)}
  IN IF hits = {} THEN 0 ELSE CHOOSE i \in hits : \A j \in hits : i <= j

\* `sub in s` of two str.
Contains(sub, s) == Find(sub, s) # 0

\* str.startswith.
StartsWith(s, prefix) == MatchAt(prefix, s, 1)

\* s.split(sep): the list of the pieces of s between the occurrences of sep.
RECURSIVE Split(_, _)
Split(s, sep) ==
  LET i == Find(sep, s)
  IN IF i = 0 THEN <<s>>
     ELSE <<SubSeq(s, 1, i - 1)>> \o Split(SubSeq(s, i + Len(sep), Len(s)), sep)

\* sep.join(pieces).
RECURSIVE Join(_, _)
Join(pieces, sep) ==
  IF Len(pieces) = 0 THEN <<>>
  ELSE IF Len(pieces) = 1 THEN pieces[1]
  ELSE pieces[1] \o sep \o Join(Tail(pieces), sep)

\* re.sub(pattern, repl, s) for a pattern that is a literal string.
ReSubLiteral(pattern, repl, s) == Join(Split(s, pattern), repl)

\* Mutant: only the quotes are dropped.
ReSubQuoteOnly(s) == SelectSeq(s, LAMBDA c : c # "'")

\* re.sub('\'|.\n', '', s): scanning left to right, a quote is dropped, and so
\* is any character other than a newline together with the newline after it.
RECURSIVE ReSubQuoteOrAnyNewline(_)
ReSubQuoteOrAnyNewline(s) ==
  IF Len(s) = 0 THEN <<>>
  ELSE IF s[1] = "'" THEN ReSubQuoteOrAnyNewline(Tail(s))
  ELSE IF Len(s) >= 2 /\ s[1] # "\n" /\ s[2] = "\n"
    THEN ReSubQuoteOrAnyNewline(SubSeq(s, 3, Len(s)))
  ELSE <<s[1]>> \o ReSubQuoteOrAnyNewline(Tail(s))

----------------------------------------------------------------------------
(* Cluster metadata and the cluster's descriptor *)

project_id == <<"p","j">>
region == <<"r","g">>
cluster_name == <<"c","n">>

\* The `cluster` dictionaries create_cluster is called with.
ClusterSpecs == {<<"f","l","i","n","k">>, <<"p","l","a","i","n">>}

DATAPROC_STAGING_LOG_NAME == <<"d","a","t","a","p","r","o","c","-","s","t","a","r","t","u","p","-","s","c","r","i","p","t","_","o","u","t","p","u","t">>

\* cluster_details.config.config_bucket
ConfigBucket == <<"b">>

\* cluster_details.config.endpoint_config.http_ports['YARN ResourceManager']
YarnEndpoint == <<"h","t","t","p","s",":","/","/","k","/","y","a","r","n","/">>

\* dataproc_v1.Cluster, as far as the manager reads it.
Descriptor(state) ==
  [state |-> state, config_bucket |-> ConfigBucket, yarn |-> YarnEndpoint]

NoDescriptor == [state |-> "", config_bucket |-> <<>>, yarn |-> <<>>]

\* The tuple parse_master_url_and_dashboard returns.
Pair(url, link) == [master_url |-> url, dashboard |-> link]

\* The lines parse_master_url_and_dashboard is called with: the documented
\* format with and without the newline, and a line without the marker.
Texts == {<<>>, <<"x"," ">>}
Urls == {<<"h",":","1">>, <<"u">>}
ApplicationIds == {<<"a","1">>, <<"b">>}
LineEnds == {<<>>, <<"\n">>}

LogLine(text, url, id, end) ==
  text \o <<"F","o","u","n","d"," ","W","e","b"," ","I","n","t","e","r","f","a","c","e"," ">>
       \o url \o <<" ","o","f"," ","a","p","p","l","i","c","a","t","i","o","n"," ">>
       \o <<"'">> \o id \o <<"'",".">> \o end

ParseLines ==
  {LogLine(text, url, id, end) :
     text \in Texts, url \in Urls, id \in ApplicationIds, end \in LineEnds}
  \cup {<<"b","o","o","t","\n">>}

----------------------------------------------------------------------------
(* Exceptions and results *)

NoError == [type |-> "", hasCode |-> FALSE, code |-> 0, msg |-> <<>>]

\* The RPC returned.
Ok == [type |-> "OK", hasCode |-> FALSE, code |-> 0, msg |-> <<>>]

\* A provider error carrying e.code.
ApiError(c) == [type |-> "GoogleAPICallError", hasCode |-> TRUE, code |-> c, msg |-> <<>>]

\* A provider error that has no `code` attribute.
RetryError == [type |-> "RetryError", hasCode |-> FALSE, code |-> 0, msg |-> <<>>]

\* What the object store raises.
BeamIOError == [type |-> "BeamIOError", hasCode |-> FALSE, code |-> 0, msg |-> <<>>]

ValueError(m) == [type |-> "ValueError", hasCode |-> FALSE, code |-> 0, msg |-> m]

\* Raised by `e.code` when e has no such attribute.
AttributeError == [type |-> "AttributeError", hasCode |-> FALSE, code |-> 0, msg |-> <<>>]

\* Raised by segment[1] when the line has no such piece.
IndexError == [type |-> "IndexError", hasCode |-> FALSE, code |-> 0, msg |-> <<>>]

ErrorCodes == {403, 404, 409, 500, 501}

\* The failures an RPC can end with.
ProviderErrors == {ApiError(c) : c \in ErrorCodes} \cup {RetryError}

Running == [kind |-> "running", exc |-> NoError, value |-> NoDescriptor]
Return(v) == [kind |-> "return", exc |-> NoError, value |-> v]
Raise(e) == [kind |-> "raise", exc |-> e, value |-> NoDescriptor]

----------------------------------------------------------------------------
(* The object store *)

\* The objects the bucket may hold, numbered in the lexicographic order of
\* their paths, which is the order a listing returns them in.
FileIds == 1..6

MetainfoPath(bucket_name) ==
  <<"g","s",":","/","/">> \o bucket_name \o <<"/","g","o","o","g","l","e","-","c","l","o","u","d","-","d","a","t","a","p","r","o","c","-","m","e","t","a","i","n","f","o","/">>

FilePath(f) ==
  MetainfoPath(ConfigBucket) \o
  CASE f = 1 -> <<"u","0","/","c","n","-","m","/","d","a","t","a","p","r","o","c","-","s","t","a","r","t","u","p","-","s","c","r","i","p","t","_","o","u","t","p","u","t">>
    [] f = 2 -> <<"u","1","/","c","n","-","a","/","d","a","t","a","p","r","o","c","-","s","t","a","r","t","u","p","-","s","c","r","i","p","t","_","o","u","t","p","u","t">>
    [] f = 3 -> <<"u","1","/","c","n","-","m","/","d","a","t","a","p","r","o","c","-","s","t","a","r","t","u","p","-","s","c","r","i","p","t","_","o","u","t","p","u","t">>
    [] f = 4 -> <<"u","1","/","c","n","-","m","/","o","t","h","e","r">>
    [] f = 5 -> <<"u","1","/","c","n","-","w","/","d","a","t","a","p","r","o","c","-","s","t","a","r","t","u","p","-","s","c","r","i","p","t","_","o","u","t","p","u","t">>
    [] f = 6 -> <<"u","2","/","z","z","-","m","/","d","a","t","a","p","r","o","c","-","s","t","a","r","t","u","p","-","s","c","r","i","p","t","_","o","u","t","p","u","t">>

\* content.readlines() of each object, decoded.
FileLines(f) ==
  CASE f = 1 -> << <<"o","l","d","\n">> >>
    [] f = 2 -> << <<"b","o","o","t","\n">> >>
    [] f = 3 -> << <<"b","o","o","t","\n">>,
                   <<"x"," ","F","o","u","n","d"," ","W","e","b"," ","I","n","t","e","r","f","a","c","e"," ","h",":","1"," ","o","f"," ","a","p","p","l","i","c","a","t","i","o","n"," ","'","a","1","'",".","\n">>,
                   <<"x"," ","F","o","u","n","d"," ","W","e","b"," ","I","n","t","e","r","f","a","c","e"," ","h",":","9"," ","o","f"," ","a","p","p","l","i","c","a","t","i","o","n"," ","'","a","9","'",".","\n">> >>
    [] f = 4 -> << <<"F","o","u","n","d"," ","W","e","b"," ","I","n","t","e","r","f","a","c","e"," ","h",":","4"," ","o","f"," ","a","p","p","l","i","c","a","t","i","o","n"," ","'","a","4","'",".","\n">> >>
    [] f = 5 -> << <<"F","o","u","n","d"," ","W","e","b"," ","I","n","t","e","r","f","a","c","e"," ","h",":","5"," ","o","f"," ","a","p","p","l","i","c","a","t","i","o","n"," ","'","a","5","'",".">> >>
    [] f = 6 -> << <<"F","o","u","n","d"," ","W","e","b"," ","I","n","t","e","r","f","a","c","e"," ","h",":","6"," ","o","f"," ","a","p","p","l","i","c","a","t","i","o","n"," ","'","a","6","'",".","\n">> >>

\* What the startup of a cluster may leave in the bucket.
Layouts == { {3, 4, 5}, {2, 3}, {2, 4}, {1, 3}, {5}, {6}, {} }

RECURSIVE Sorted(_)
Sorted(S) ==
  IF S = {} THEN <<>>
  ELSE LET m == CHOOSE x \in S : \A y \in S : x <= y
       IN <<m>> \o Sorted(S \ {m})

\* self._fs._list(prefix): the objects under the prefix, in listing order.
List(prefix) == Sorted({f \in store : StartsWith(FilePath(f), prefix)})

\* Mutant: the first object of the listing is left out.
PathsButFirst(listing) == [i \in 1..(Len(listing) - 1) |-> FilePath(listing[i + 1])]

\* [file.path for file in self._fs._list(...)]
Paths(listing) == [i \in 1..Len(listing) |-> FilePath(listing[i])]

----------------------------------------------------------------------------
(* Pure parts of the methods *)

\* Mutant: a conflict is raised like any other failure.
CreateHandlerConflictRaises(e) ==
  IF ~e.hasCode THEN Raise(AttributeError)
  ELSE IF e.code = 403
    THEN Raise(ValueError(<<"Y","o","u"," ","c","a","n","n","o","t"," ","c","r","e","a","t","e"," ","a"," ","c","l","u","s","t","e","r"," ","i","n"," ","p","r","o","j","e","c","t",":"," ">> \o project_id))
  ELSE IF e.code = 501
    THEN Raise(ValueError(<<"R","e","g","i","o","n"," ">> \o region \o <<" ","d","o","e","s"," ","n","o","t"," ","e","x","i","s","t","!">>))
  ELSE Raise(e)

\* Mutant: the invalid-region message is formatted with the cluster's name.
CreateHandlerWrongName(e) ==
  IF ~e.hasCode THEN Raise(AttributeError)
  ELSE IF e.code = 409 THEN Return(NoDescriptor)
  ELSE IF e.code = 403
    THEN Raise(ValueError(<<"Y","o","u"," ","c","a","n","n","o","t"," ","c","r","e","a","t","e"," ","a"," ","c","l","u","s","t","e","r"," ","i","n"," ","p","r","o","j","e","c","t",":"," ">> \o project_id))
  ELSE IF e.code = 501
    THEN Raise(ValueError(<<"R","e","g","i","o","n"," ">> \o cluster_name \o <<" ","d","o","e","s"," ","n","o","t"," ","e","x","i","s","t","!">>))
  ELSE Raise(e)

\* create_cluster's except clause.
CreateHandler(e) ==
  IF ~e.hasCode THEN Raise(AttributeError)
  ELSE IF e.code = 409 THEN Return(NoDescriptor)
  ELSE IF e.code = 403
    THEN Raise(ValueError(<<"Y","o","u"," ","c","a","n","n","o","t"," ","c","r","e","a","t","e"," ","a"," ","c","l","u","s","t","e","r"," ","i","n"," ","p","r","o","j","e","c","t",":"," ">> \o project_id))
  ELSE IF e.code = 501
    THEN Raise(ValueError(<<"R","e","g","i","o","n"," ">> \o region \o <<" ","d","o","e","s"," ","n","o","t"," ","e","x","i","s","t","!">>))
  ELSE Raise(e)

\* Mutant: cleanup absorbs the conflict as create_cluster does.
CleanupHandlerAbsorbsConflict(e) ==
  IF e.hasCode /\ e.code = 409 THEN Return(NoDescriptor) ELSE Raise(e)

\* cleanup's except clause.
CleanupHandler(e) ==
  IF ~e.hasCode THEN Raise(AttributeError)
  ELSE IF e.code = 403
    THEN Raise(ValueError(<<"Y","o","u"," ","c","a","n","n","o","t"," ","d","e","l","e","t","e"," ","a"," ","c","l","u","s","t","e","r"," ","i","n"," ","p","r","o","j","e","c","t",":"," ">> \o project_id))
  ELSE IF e.code = 404
    THEN Raise(ValueError(<<"C","l","u","s","t","e","r"," ","w","a","s"," ","n","o","t"," ","f","o","u","n","d",":"," ">> \o cluster_name))
  ELSE Raise(e)

\* Mutant: a failure of the RPC is swallowed.
GetClusterDetailsNeverRaises(out) == Return(Descriptor("RUNNING"))

\* get_cluster_details: the RPC's outcome, through the except clause.
GetClusterDetails(out) ==
  IF out = Ok THEN Return(Descriptor(cluster))
  ELSE IF ~out.hasCode THEN Raise(AttributeError)
  ELSE IF out.code = 403
    THEN Raise(ValueError(<<"Y","o","u"," ","c","a","n","n","o","t"," ","v","i","e","w"," ","c","l","u","s","t","e","r","s"," ","i","n"," ","p","r","o","j","e","c","t",":"," ">> \o project_id))
  ELSE IF out.code = 404
    THEN Raise(ValueError(<<"C","l","u","s","t","e","r"," ","w","a","s"," ","n","o","t"," ","f","o","u","n","d",":"," ">> \o cluster_name))
  ELSE Raise(out)

\* Mutant: the last path holding the cluster's name.
StagingLocationLast(listing) ==
  LET hits == {i \in 1..Len(listing) : Contains(cluster_name, FilePath(listing[i]))}
  IN IF hits = {} THEN None
     ELSE LET i == CHOOSE i \in hits : \A j \in hits : i >= j
          IN Split(FilePath(listing[i]), cluster_name)[1]

\* get_staging_location's loop over the listing.
StagingLocation(listing) ==
  LET hits == {i \in 1..Len(listing) : Contains(cluster_name, FilePath(listing[i]))}
  IN IF hits = {} THEN None
     ELSE LET i == CHOOSE i \in hits : \A j \in hits : i <= j
          IN Split(FilePath(listing[i]), cluster_name)[1]

\* Mutant: every listed object is taken for a startup log.
StartupLogsAll(listing) == listing

\* get_master_url_and_dashboard's first loop.
StartupLogs(listing) ==
  SelectSeq(listing, LAMBDA f : Contains(DATAPROC_STAGING_LOG_NAME, FilePath(f)))

\* Mutant: the last line holding the marker.
MarkerLineLast(lines) ==
  LET hits == {i \in 1..Len(lines) : Contains(<<"F","o","u","n","d"," ","W","e","b"," ","I","n","t","e","r","f","a","c","e">>, lines[i])}
  IN IF hits = {} THEN None
     ELSE lines[CHOOSE i \in hits : \A j \in hits : i >= j]

\* get_master_url_and_dashboard's scan of one log: the first line holding
\* the marker, or None.
MarkerLine(lines) ==
  LET hits == {i \in 1..Len(lines) : Contains(<<"F","o","u","n","d"," ","W","e","b"," ","I","n","t","e","r","f","a","c","e">>, lines[i])}
  IN IF hits = {} THEN None
     ELSE lines[CHOOSE i \in hits : \A j \in hits : i <= j]

\* parse_master_url_and_dashboard after its get_cluster_details call.
ParseMasterUrlAndDashboard(line, yarn_endpoint) ==
  LET parts == Split(line, <<"F","o","u","n","d"," ","W","e","b"," ","I","n","t","e","r","f","a","c","e"," ">>)
  IN IF Len(parts) < 2 THEN [ok |-> FALSE, master_url |-> None, dashboard |-> None]
     ELSE
       LET segment == Split(parts[2], <<" ","o","f"," ","a","p","p","l","i","c","a","t","i","o","n"," ">>)
       IN IF Len(segment) < 2
            THEN [ok |-> FALSE, master_url |-> None, dashboard |-> None]
          ELSE
            LET application_id == ReSubQuoteOrAnyNewline(segment[2])
            IN [ok |-> TRUE,
                master_url |-> segment[1],
                dashboard |-> ReSubLiteral(
                  <<"/","y","a","r","n","/">>,
                  <<"/","g","a","t","e","w","a","y","/","d","e","f","a","u","l","t","/","y","a","r","n","/","p","r","o","x","y","/">> \o application_id \o <<"/">>,
                  yarn_endpoint)]

----------------------------------------------------------------------------
(* State *)

\* The manager's fields, as an invocation finds them.
Snapshot == [master_url |-> master_url, dashboard |-> dashboard,
             staging_directory |-> staging_directory]

\* One external call, or one assignment to a field, made by method `by`.
Entry(api, by, req, out) == [api |-> api, by |-> by, req |-> req, out |-> out]

ClusterRequest == <<project_id, region, cluster_name>>

\* time.sleep(15) in wait_for_cluster_to_provision.
SleepSeconds == 15

\* The PCollections of the user's pipeline.
Pcolls == {"p1", "p2"}

\* beam.runners.runner.PipelineState, as far as show and head read it.
PipelineStates == {"RUNNING", "DONE", "FAILED"}

\* No Timeloop has been created for a PCollection.  status: none, started or
\* stopped; tick: where the job thread stands in continuous_update_display;
\* handle: visualize returned the Timeloop to its caller; final: the last
\* update of the display was made with the pipeline terminated; raised: an
\* exception has left continuous_update_display.
NoTimeloop ==
  [status |-> "none", tick |-> "sleep", handle |-> FALSE, final |-> FALSE,
   raised |-> FALSE]

interactive == <<result_state, tl>>

\* A DataprocClusterManager after __init__, no thread in any method.
ManagerInit ==
  /\ master_url = None
  /\ dashboard = None
  /\ staging_directory = None
  /\ \/ cluster = "NONE" /\ store = {}
     \/ cluster = "RUNNING" /\ store \in Layouts
  /\ pc = [t \in Threads |-> "idle"]
  /\ op = [t \in Threads |-> "none"]
  /\ arg = [t \in Threads |-> <<>>]
  /\ calls = [t \in Threads |-> <<>>]
  /\ result = [t \in Threads |-> Running]
  /\ pre = [t \in Threads |-> Snapshot]
  /\ startup_logs = [t \in Threads |-> <<>>]
  /\ staging_files = [t \in Threads |-> <<>>]
  /\ decoded_line = [t \in Threads |-> <<>>]
  /\ polls = [t \in Threads |-> 0]
  /\ create_succeeded = FALSE

Init ==
  /\ ManagerInit
  /\ lifecycle = "unobserved"
  /\ result_state = "DONE"
  /\ tl = [p \in Pcolls |-> NoTimeloop]

metadata == <<master_url, dashboard>>
env == <<cluster, store>>
locals == <<startup_logs, staging_files, decoded_line, polls>>

\* Thread t starts method o at label l.
Invoke(t, o, a, l) ==
  /\ pc[t] \in {"idle", "done"}
  /\ pc' = [pc EXCEPT ![t] = l]
  /\ op' = [op EXCEPT ![t] = o]
  /\ arg' = [arg EXCEPT ![t] = a]
  /\ calls' = [calls EXCEPT ![t] = <<>>]
  /\ result' = [result EXCEPT ![t] = Running]
  /\ pre' = [pre EXCEPT ![t] = Snapshot]
  /\ startup_logs' = [startup_logs EXCEPT ![t] = <<>>]
  /\ staging_files' = [staging_files EXCEPT ![t] = <<>>]
  /\ decoded_line' = [decoded_line EXCEPT ![t] = <<>>]
  /\ polls' = [polls EXCEPT ![t] = 0]
  /\ UNCHANGED <<metadata, staging_directory, env, create_succeeded, lifecycle,
                 interactive>>

\* The method of thread t returns or raises.
Finish(t, res) ==
  /\ pc' = [pc EXCEPT ![t] = "done"]
  /\ result' = [result EXCEPT ![t] = res]

Goto(t, l) ==
  /\ pc' = [pc EXCEPT ![t] = l]
  /\ UNCHANGED result

Record(t, entries) == calls' = [calls EXCEPT ![t] = @ \o entries]

\* The history of the manager once the method of thread t has ended with
\* res: create_cluster returns from its else clause (the create RPC created
\* the cluster), a later cleanup returns.
LifecycleAfter(t, res) ==
  IF res.kind # "return" THEN lifecycle
  ELSE IF op[t] = "create_cluster" /\ lifecycle = "new" THEN "created"
  ELSE IF op[t] = "cleanup" /\ lifecycle = "created" THEN "deleted"
  ELSE lifecycle

\* Outcomes of the three RPCs in the cluster's present state.
CreateOutcomes == (IF cluster = "NONE" THEN {Ok} ELSE {}) \cup ProviderErrors
DeleteOutcomes == (IF cluster # "NONE" THEN {Ok} ELSE {}) \cup ProviderErrors
GetOutcomes == (IF cluster # "NONE" THEN {Ok} ELSE {}) \cup ProviderErrors

\* Outcomes of an object-store call.
FsOutcomes == {Ok, BeamIOError}

----------------------------------------------------------------------------
(* create_cluster *)

CallCreateCluster(t, c) == Invoke(t, "create_cluster", c, "create_guard")

\* Mutant: the guard is left out.
CreateSkippedNever == FALSE

\* if self.cluster_metadata.master_url: return
CreateSkipped == Truthy(master_url)

CreateGuard(t) ==
  /\ pc[t] = "create_guard"
  /\ IF CreateSkipped
       THEN Finish(t, Return(NoDescriptor))
       ELSE Goto(t, "create_rpc")
  /\ UNCHANGED <<metadata, staging_directory, env, op, arg, calls, pre, locals,
                 create_succeeded, lifecycle, interactive>>

\* Mutant: the resolution follows the try statement instead of being its
\* else clause, so it also runs after an absorbed conflict.
CreateProceedsAfterConflict(out) == out = Ok \/ (out.hasCode /\ out.code = 409)

\* The try statement runs its else clause when the RPC did not raise.
CreateProceeds(out) == out = Ok

\* self._cluster_client.create_cluster(request=...), its except clause.
CreateRpc(t, out) ==
  /\ pc[t] = "create_rpc"
  /\ out \in CreateOutcomes
  /\ Record(t, <<Entry("create_cluster", "create_cluster",
                       <<project_id, region, arg[t]>>, out)>>)
  /\ cluster' = IF out = Ok THEN "CREATING" ELSE cluster
  /\ create_succeeded' = (create_succeeded \/ out = Ok)
  /\ UNCHANGED <<lifecycle, interactive>>
  /\ IF CreateProceeds(out)
       THEN Goto(t, "wait")
       ELSE Finish(t, CreateHandler(out))
  /\ UNCHANGED <<metadata, staging_directory, store, op, arg, pre, locals>>

\* Mutant: the loop is left whatever the state is.
StillCreatingNever(state) == FALSE

\* Mutant: the loop is never left.
StillCreatingAlways(state) == TRUE

\* while self.get_cluster_details().status.state.name == 'CREATING'
StillCreating(state) == state = "CREATING"

\* One round of wait_for_cluster_to_provision, called by get_staging_location:
\* get_cluster_details(), then time.sleep(15) while the state is CREATING.
WaitPoll(t, out) ==
  /\ pc[t] = "wait"
  /\ out \in GetOutcomes
  /\ (out = Ok /\ StillCreating(cluster)) => polls[t] < MaxPolls
  /\ LET res == GetClusterDetails(out)
         get == Entry("get_cluster", "wait_for_cluster_to_provision", ClusterRequest, out)
         sleep == Entry("time.sleep", "wait_for_cluster_to_provision", <<SleepSeconds>>, Ok)
     IN IF res.kind = "raise"
          THEN /\ Finish(t, Raise(res.exc))
               /\ Record(t, <<get>>)
               /\ UNCHANGED polls
        ELSE IF StillCreating(res.value.state)
          THEN /\ Goto(t, "wait")
               /\ Record(t, <<get, sleep>>)
               /\ polls' = [polls EXCEPT ![t] = @ + 1]
        ELSE /\ Goto(t, "details")
             /\ Record(t, <<get>>)
             /\ UNCHANGED polls
  /\ UNCHANGED <<metadata, staging_directory, env, op, arg, pre, startup_logs,
                 staging_files, decoded_line, create_succeeded, lifecycle, interactive>>

\* get_staging_location: cluster_details = self.get_cluster_details()
StagingDetails(t, out) ==
  /\ pc[t] = "details"
  /\ out \in GetOutcomes
  /\ Record(t, <<Entry("get_cluster", "get_staging_location", ClusterRequest, out)>>)
  /\ LET res == GetClusterDetails(out)
     IN IF res.kind = "raise"
          THEN Finish(t, Raise(res.exc))
          ELSE Goto(t, "list_meta")
  /\ UNCHANGED <<metadata, staging_directory, env, op, arg, pre, locals,
                 create_succeeded, lifecycle, interactive>>

\* get_staging_location: the listing under the metainfo prefix and the loop
\* over it; create_cluster assigns what it returns to self._staging_directory.
StagingList(t, out) ==
  /\ pc[t] = "list_meta"
  /\ out \in FsOutcomes
  /\ LET gcs_path == MetainfoPath(Descriptor(cluster).config_bucket)
         list == Entry("_fs._list", "get_staging_location", <<gcs_path>>, out)
         location == StagingLocation(List(gcs_path))
     IN IF out # Ok
          THEN /\ Finish(t, Raise(out))
               /\ Record(t, <<list>>)
               /\ UNCHANGED staging_directory
          ELSE /\ Goto(t, "list_staging")
               /\ Record(t, <<list, Entry("assign", "create_cluster",
                                          <<"_staging_directory", location>>, Ok)>>)
               /\ staging_directory' = location
  /\ UNCHANGED <<metadata, env, op, arg, pre, locals, create_succeeded, lifecycle, interactive>>

\* get_master_url_and_dashboard: the listing of the staging directory and
\* the filter on the log name.  What the file system does with a None
\* prefix is its own business: it raises or lists nothing.
EndpointList(t, out) ==
  /\ pc[t] = "list_staging"
  /\ out \in FsOutcomes
  /\ Record(t, <<Entry("_fs._list", "get_master_url_and_dashboard",
                       <<staging_directory>>, out)>>)
  /\ IF out # Ok
       THEN /\ Finish(t, Raise(out))
            /\ UNCHANGED startup_logs
       ELSE /\ Goto(t, "open_log")
            /\ startup_logs' = [startup_logs EXCEPT ![t] =
                 IF staging_directory = None THEN <<>>
                 ELSE StartupLogs(List(staging_directory))]
  /\ UNCHANGED <<metadata, staging_directory, env, op, arg, pre, staging_files,
                 decoded_line, polls, create_succeeded, lifecycle, interactive>>

\* get_master_url_and_dashboard: self._fs.open(log) and the scan of its lines.
EndpointOpen(t, out) ==
  /\ pc[t] = "open_log"
  /\ startup_logs[t] # <<>>
  /\ out \in FsOutcomes
  /\ out = Ok => Head(startup_logs[t]) \in store
  /\ LET log == Head(startup_logs[t])
         line == MarkerLine(FileLines(log))
     IN /\ Record(t, <<Entry("_fs.open", "get_master_url_and_dashboard",
                             <<FilePath(log)>>, out)>>)
        /\ IF out # Ok
             THEN /\ Finish(t, Raise(out))
                  /\ UNCHANGED <<startup_logs, decoded_line>>
           ELSE IF line = None
             THEN /\ Goto(t, "open_log")
                  /\ startup_logs' = [startup_logs EXCEPT ![t] = Tail(@)]
                  /\ UNCHANGED decoded_line
           ELSE /\ Goto(t, "parse")
                /\ decoded_line' = [decoded_line EXCEPT ![t] = line]
                /\ UNCHANGED startup_logs
  /\ UNCHANGED <<metadata, staging_directory, env, op, arg, pre, staging_files,
                 polls, create_succeeded, lifecycle, interactive>>

\* get_master_url_and_dashboard: return None, None, which create_cluster
\* writes to the metadata.
EndpointNone(t) ==
  /\ pc[t] = "open_log"
  /\ startup_logs[t] = <<>>
  /\ master_url' = None
  /\ dashboard' = None
  /\ Record(t, <<Entry("assign", "create_cluster", <<"master_url", None>>, Ok),
                 Entry("assign", "create_cluster", <<"dashboard", None>>, Ok)>>)
  /\ Finish(t, Return(NoDescriptor))
  /\ lifecycle' = LifecycleAfter(t, result'[t])
  /\ UNCHANGED <<staging_directory, env, op, arg, pre, locals, create_succeeded,
                 interactive>>

\* parse_master_url_and_dashboard called on its own with a line.
CallParseMasterUrlAndDashboard(t, line) ==
  Invoke(t, "parse_master_url_and_dashboard", line, "parse")

\* parse_master_url_and_dashboard: its get_cluster_details call and the
\* parse of its line; in create_cluster the line is the one
\* get_master_url_and_dashboard found, and create_cluster writes the pair to
\* the metadata.
EndpointParse(t, out) ==
  /\ pc[t] = "parse"
  /\ out \in GetOutcomes
  /\ LET res == GetClusterDetails(out)
         get == Entry("get_cluster", "parse_master_url_and_dashboard", ClusterRequest, out)
         line == IF op[t] = "create_cluster" THEN decoded_line[t] ELSE arg[t]
         parsed == ParseMasterUrlAndDashboard(line, res.value.yarn)
     IN IF res.kind = "raise"
          THEN /\ Finish(t, Raise(res.exc))
               /\ Record(t, <<get>>)
               /\ UNCHANGED metadata
        ELSE IF ~parsed.ok
          THEN /\ Finish(t, Raise(IndexError))
               /\ Record(t, <<get>>)
               /\ UNCHANGED metadata
        ELSE IF op[t] # "create_cluster"
          THEN /\ Finish(t, Return(Pair(parsed.master_url, parsed.dashboard)))
               /\ Record(t, <<get>>)
               /\ UNCHANGED metadata
        ELSE /\ Finish(t, Return(NoDescriptor))
             /\ Record(t, <<get,
                  Entry("assign", "create_cluster", <<"master_url", parsed.master_url>>, Ok),
                  Entry("assign", "create_cluster", <<"dashboard", parsed.dashboard>>, Ok)>>)
             /\ master_url' = parsed.master_url
             /\ dashboard' = parsed.dashboard
  /\ lifecycle' = LifecycleAfter(t, result'[t])
  /\ UNCHANGED <<staging_directory, env, op, arg, pre, locals, create_succeeded,
                 interactive>>

----------------------------------------------------------------------------
(* cleanup *)

CallCleanup(t) == Invoke(t, "cleanup", <<>>, "delete_rpc")

\* Mutant: cleanup_staging_files follows the try statement instead of the
\* delete RPC inside it, so it also runs after a failed delete.
CleanupProceedsAlways(out) == TRUE

\* self.cleanup_staging_files() is the statement after the delete RPC in the
\* try block: it runs when the RPC did not raise.
CleanupProceeds(out) == out = Ok

\* self._cluster_client.delete_cluster(request=...), then
\* cleanup_staging_files' test of self._staging_directory.
CleanupRpc(t, out) ==
  /\ pc[t] = "delete_rpc"
  /\ out \in DeleteOutcomes
  /\ Record(t, <<Entry("delete_cluster", "cleanup", ClusterRequest, out)>>)
  /\ cluster' = IF out = Ok THEN "NONE" ELSE cluster
  /\ IF ~CleanupProceeds(out) THEN Finish(t, CleanupHandler(out))
     ELSE IF Truthy(staging_directory) THEN Goto(t, "cleanup_list")
     ELSE Finish(t, Return(NoDescriptor))
  /\ lifecycle' = LifecycleAfter(t, result'[t])
  /\ UNCHANGED <<metadata, staging_directory, store, op, arg, pre, locals,
                 create_succeeded, interactive>>

\* cleanup_staging_files: the listing of the staging directory.
CleanupList(t, out) ==
  /\ pc[t] = "cleanup_list"
  /\ out \in FsOutcomes
  /\ Record(t, <<Entry("_fs._list", "cleanup_staging_files", <<staging_directory>>, out)>>)
  /\ IF out # Ok
       THEN /\ Finish(t, CleanupHandler(out))
            /\ UNCHANGED staging_files
       ELSE /\ Goto(t, "cleanup_delete")
            /\ staging_files' = [staging_files EXCEPT ![t] = List(staging_directory)]
  /\ UNCHANGED <<metadata, staging_directory, env, op, arg, pre, startup_logs,
                 decoded_line, polls, create_succeeded, lifecycle, interactive>>

\* cleanup_staging_files: self._fs.delete(staging_files).  A delete that
\* raises has deleted some of the objects, not all of them.
CleanupDelete(t, out, deleted) ==
  /\ pc[t] = "cleanup_delete"
  /\ out \in FsOutcomes
  /\ LET paths == Paths(staging_files[t])
         named == {f \in store : \E i \in 1..Len(paths) : paths[i] = FilePath(f)}
     IN /\ deleted \subseteq named
        /\ (out = Ok) <=> (deleted = named)
        /\ store' = store \ deleted
        /\ Record(t, <<Entry("_fs.delete", "cleanup_staging_files", paths, out)>>)
  /\ IF out # Ok
       THEN Finish(t, CleanupHandler(out))
       ELSE Finish(t, Return(NoDescriptor))
  /\ lifecycle' = LifecycleAfter(t, result'[t])
  /\ UNCHANGED <<metadata, staging_directory, cluster, op, arg, pre, locals,
                 create_succeeded, interactive>>

----------------------------------------------------------------------------
(* get_cluster_details, called by the user *)

CallGetClusterDetails(t) == Invoke(t, "get_cluster_details", <<>>, "get_rpc")

GetRpc(t, out) ==
  /\ pc[t] = "get_rpc"
  /\ out \in GetOutcomes
  /\ Record(t, <<Entry("get_cluster", "get_cluster_details", ClusterRequest, out)>>)
  /\ Finish(t, GetClusterDetails(out))
  /\ UNCHANGED <<metadata, staging_directory, env, op, arg, pre, locals,
                 create_succeeded, lifecycle, interactive>>

----------------------------------------------------------------------------
(* The environment *)

\* The cluster leaves CREATING; its startup has written its files.
Provision(layout) ==
  /\ cluster = "CREATING"
  /\ cluster' = "RUNNING"
  /\ store' = store \cup layout
  /\ UNCHANGED <<metadata, staging_directory, pc, op, arg, calls, result, pre,
                 locals, create_succeeded, lifecycle, interactive>>

----------------------------------------------------------------------------
(* Specification *)

Step(t) ==
  \/ \E c \in ClusterSpecs : CallCreateCluster(t, c)
  \/ CreateGuard(t)
  \/ \E out \in CreateOutcomes : CreateRpc(t, out)
  \/ \E out \in GetOutcomes : WaitPoll(t, out)
  \/ \E out \in GetOutcomes : StagingDetails(t, out)
  \/ \E out \in FsOutcomes : StagingList(t, out)
  \/ \E out \in FsOutcomes : EndpointList(t, out)
  \/ \E out \in FsOutcomes : EndpointOpen(t, out)
  \/ EndpointNone(t)
  \/ \E line \in ParseLines : CallParseMasterUrlAndDashboard(t, line)
  \/ \E out \in GetOutcomes : EndpointParse(t, out)
  \/ CallCleanup(t)
  \/ \E out \in DeleteOutcomes : CleanupRpc(t, out)
  \/ \E out \in FsOutcomes : CleanupList(t, out)
  \/ \E out \in FsOutcomes, deleted \in SUBSET store : CleanupDelete(t, out, deleted)
  \/ CallGetClusterDetails(t)
  \/ \E out \in GetOutcomes : GetRpc(t, out)

\* One caller: the manager is not invoked concurrently.
Next ==
  \/ Step(Main)
  \/ \E layout \in Layouts : Provision(layout)

Spec == Init /\ [][Next]_vars

\* The same manager with its history of completed calls kept.
LifecycleInit ==
  /\ ManagerInit
  /\ lifecycle = "new"
  /\ result_state = "DONE"
  /\ tl = [p \in Pcolls |-> NoTimeloop]

LifecycleSpec == LifecycleInit /\ [][Next]_vars

\* Two callers, each making one create_cluster call on the same manager.  No
\* lock is taken: the steps of the two calls interleave freely.
ConcurrentStep(t) ==
  \/ \E c \in ClusterSpecs : pc[t] = "idle" /\ CallCreateCluster(t, c)
  \/ CreateGuard(t)
  \/ \E out \in CreateOutcomes : CreateRpc(t, out)
  \/ \E out \in GetOutcomes : WaitPoll(t, out)
  \/ \E out \in GetOutcomes : StagingDetails(t, out)
  \/ \E out \in FsOutcomes : StagingList(t, out)
  \/ \E out \in FsOutcomes : EndpointList(t, out)
  \/ \E out \in FsOutcomes : EndpointOpen(t, out)
  \/ EndpointNone(t)
  \/ \E out \in GetOutcomes : EndpointParse(t, out)

ConcurrentNext ==
  \/ \E t \in Threads : ConcurrentStep(t)
  \/ \E layout \in Layouts : Provision(layout)

ConcurrentSpec == Init /\ [][ConcurrentNext]_vars

\* The cluster eventually leaves CREATING, and the thread in
\* wait_for_cluster_to_provision keeps running: time.sleep(15) returns and a
\* get-cluster call that can succeed eventually does.
FairSpec ==
  /\ Spec
  /\ WF_vars(\E layout \in Layouts : Provision(layout))
  /\ WF_vars(WaitPoll(Main, Ok))

----------------------------------------------------------------------------
(* interactive_beam.show and head, pcoll_visualization.visualize *)

AssertionError == [type |-> "AssertionError", hasCode |-> FALSE, code |-> 0, msg |-> <<>>]
RuntimeError == [type |-> "RuntimeError", hasCode |-> FALSE, code |-> 0, msg |-> <<>>]
\* What the runner raises out of run(), wait_until_finish() or get().
PipelineError == [type |-> "Exception", hasCode |-> FALSE, code |-> 0, msg |-> <<>>]

RunOutcomes == {Ok, PipelineError}
StopOutcomes == {Ok, RuntimeError}

\* ie.current_env().is_in_ipython and is_in_notebook, and the module's
\* _pcoll_visualization_ready: a notebook is an ipython session.
Frontends ==
  {f \in [is_in_ipython : BOOLEAN, is_in_notebook : BOOLEAN,
          pcoll_visualization_ready : BOOLEAN] :
     f.is_in_notebook => f.is_in_ipython}

\* dynamic_plotting_interval, and Python's truth value of it.
Intervals == {"None", "0", "1"}
IntervalTruthy(i) == i \notin {"None", "0"}

\* The arguments of show: the PCollections, and whether they pass the
\* assertions (PCollections of one pipeline).
ShowArgs ==
  [pcolls : {<<"p1">>, <<"p1", "p2">>}, valid : BOOLEAN, frontend : Frontends]

\* The arguments of head: the PCollection, n, and whether it passes the
\* assertion.
HeadArgs == [pcolls : {<<"p1">>}, n : 1..MaxHead, valid : BOOLEAN]

VisualizeArgs == [pcolls : {<<"p1">>, <<"p2">>}, interval : Intervals, frontend : Frontends]

\* ie.current_env().is_terminated(pcoll.pipeline)
IsTerminated == result_state # "RUNNING"

Range(s) == {s[i] : i \in DOMAIN s}

\* Mutant: dynamic plotting also without a notebook frontend.
StartsTimeloopAnywhere(interval, frontend) ==
  frontend.pcoll_visualization_ready /\ IntervalTruthy(interval)

\* visualize creates and starts a Timeloop.
StartsTimeloop(interval, frontend) ==
  /\ frontend.pcoll_visualization_ready
  /\ frontend.is_in_notebook
  /\ IntervalTruthy(interval)

\* visualize(pcoll, dynamic_plotting_interval): the Timeloop it leaves for
\* pcoll.  `returned` tells whether the caller keeps what visualize returns.
Visualize(p, interval, frontend, returned) ==
  IF StartsTimeloop(interval, frontend)
    THEN [status |-> "started", tick |-> "sleep", handle |-> returned,
          final |-> FALSE, raised |-> FALSE]
  ELSE tl[p]

\* The display calls of one visualize(pcoll, ...).
VisualizeCalls(p, interval, frontend, by) ==
  IF ~frontend.pcoll_visualization_ready THEN <<>>
  ELSE IF ~frontend.is_in_notebook
    THEN <<Entry("display_plain_text", by, <<p>>, Ok)>>
  ELSE IF ~IntervalTruthy(interval)
    THEN <<Entry("display", by, <<p>>, Ok)>>
  ELSE <<Entry("display", by, <<p>>, Ok), Entry("tl.start", by, <<p>>, Ok)>>

\* No job of an earlier Timeloop is still alive for the PCollections: one
\* Timeloop per PCollection is followed at a time.
NoneStarted(pcolls) ==
  \A p \in Range(pcolls) : tl[p].status # "started" /\ tl[p].tick = "sleep"

manager == <<metadata, staging_directory, env, create_succeeded, lifecycle>>

\* for pcoll in pcolls: visualize(pcoll, ...)
RECURSIVE VisualizeAllCalls(_, _, _)
VisualizeAllCalls(pcolls, interval, frontend) ==
  IF pcolls = <<>> THEN <<>>
  ELSE VisualizeCalls(Head(pcolls), interval, frontend, "visualize")
         \o VisualizeAllCalls(Tail(pcolls), interval, frontend)

VisualizeAll(pcolls, interval, frontend, returned) ==
  [p \in Pcolls |-> IF p \in Range(pcolls)
                       THEN Visualize(p, interval, frontend, returned)
                     ELSE tl[p]]

\* What visualize returns: the Timeloop, or None.
Handle(p, interval, frontend) ==
  [timeloop |-> IF StartsTimeloop(interval, frontend) THEN p ELSE "None"]

CallVisualize(t, a) ==
  /\ NoneStarted(a.pcolls)
  /\ Invoke(t, "visualize", a, "visualize")

VisualizeBody(t) ==
  /\ pc[t] = "visualize"
  /\ tl' = VisualizeAll(arg[t].pcolls, arg[t].interval, arg[t].frontend, TRUE)
  /\ Record(t, VisualizeAllCalls(arg[t].pcolls, arg[t].interval, arg[t].frontend))
  /\ Finish(t, Return(Handle(arg[t].pcolls[1], arg[t].interval, arg[t].frontend)))
  /\ UNCHANGED <<manager, op, arg, pre, locals, result_state>>

CallShow(t, a) ==
  /\ NoneStarted(a.pcolls)
  /\ Invoke(t, "show", a, "run")

CallHead(t, a) == Invoke(t, "head", a, "run")

\* show and head up to set_pipeline_result: the assertions, the background
\* caching job, the run of the pipeline fragment, and the recording of its
\* result, whose state is s.
RunFragment(t, out, s) ==
  /\ pc[t] = "run"
  /\ out \in RunOutcomes
  /\ s \in PipelineStates
  /\ IF ~arg[t].valid
       THEN /\ Finish(t, Raise(AssertionError))
            /\ UNCHANGED <<calls, result_state>>
     ELSE IF out # Ok
       THEN /\ Finish(t, Raise(out))
            /\ Record(t, <<Entry("attempt_to_run_background_caching_job", op[t], <<>>, Ok),
                           Entry("PipelineFragment.run", op[t], arg[t].pcolls, out)>>)
            /\ UNCHANGED result_state
     ELSE /\ Goto(t, IF op[t] = "show" /\ arg[t].frontend.is_in_notebook
                       THEN "visualize_dynamic" ELSE "wait_until_finish")
          /\ Record(t, <<Entry("attempt_to_run_background_caching_job", op[t], <<>>, Ok),
                         Entry("PipelineFragment.run", op[t], arg[t].pcolls, Ok),
                         Entry("set_pipeline_result", op[t], <<>>, Ok)>>)
          /\ result_state' = s
  /\ UNCHANGED <<manager, op, arg, pre, locals, tl>>

\* show in a notebook: visualize(pcoll, dynamic_plotting_interval=1) for each
\* PCollection; what visualize returns is dropped.
ShowVisualizeDynamic(t) ==
  /\ pc[t] = "visualize_dynamic"
  /\ tl' = VisualizeAll(arg[t].pcolls, "1", arg[t].frontend, FALSE)
  /\ Record(t, VisualizeAllCalls(arg[t].pcolls, "1", arg[t].frontend))
  /\ Goto(t, "wait_until_finish")
  /\ UNCHANGED <<manager, op, arg, pre, locals, result_state>>

\* result.wait_until_finish()
WaitUntilFinish(t, out) ==
  /\ pc[t] = "wait_until_finish"
  /\ out \in RunOutcomes
  /\ Record(t, <<Entry("wait_until_finish", op[t], <<>>, out)>>)
  /\ IF out # Ok THEN Finish(t, Raise(out))
     ELSE IF op[t] = "head" THEN Goto(t, "get")
     ELSE IF arg[t].frontend.is_in_ipython /\ ~arg[t].frontend.is_in_notebook
       THEN Goto(t, "visualize_plain")
     ELSE Goto(t, "mark")
  /\ UNCHANGED <<manager, op, arg, pre, locals, interactive>>

\* show in an ipython shell without a notebook: visualize(pcoll) for each
\* PCollection.
ShowVisualizePlain(t) ==
  /\ pc[t] = "visualize_plain"
  /\ tl' = VisualizeAll(arg[t].pcolls, "None", arg[t].frontend, FALSE)
  /\ Record(t, VisualizeAllCalls(arg[t].pcolls, "None", arg[t].frontend))
  /\ Goto(t, "mark")
  /\ UNCHANGED <<manager, op, arg, pre, locals, result_state>>

\* head: the loop over result.get(pcoll), which appends `read` elements.
HeadGet(t, out, read) ==
  /\ pc[t] = "get"
  /\ out \in RunOutcomes
  /\ read \in 0..arg[t].n
  /\ out # Ok => read = 0
  /\ Record(t, <<Entry("result.get", "head", <<read>>, out)>>)
  /\ IF out # Ok THEN Finish(t, Raise(out)) ELSE Goto(t, "mark")
  /\ UNCHANGED <<manager, op, arg, pre, locals, interactive>>

\* Mutant: the PCollections are marked whatever the state is.
MarksComputedAlways(s) == TRUE

\* if result.state is beam.runners.runner.PipelineState.DONE
MarksComputed(s) == s = "DONE"

\* The end of show and head: the test of result.state and
\* mark_pcollection_computed; head returns the elements it has read.
Mark(t) ==
  /\ pc[t] = "mark"
  /\ Record(t, <<Entry("result.state", op[t], <<result_state>>, Ok)>> \o
               (IF MarksComputed(result_state)
                  THEN <<Entry("mark_pcollection_computed", op[t], arg[t].pcolls, Ok)>>
                ELSE <<>>))
  /\ Finish(t, Return(IF op[t] = "head"
                        THEN [elements |-> calls[t][Len(calls[t])].req[1]]
                      ELSE NoDescriptor))
  /\ UNCHANGED <<manager, op, arg, pre, locals, interactive>>

\* continuous_update_display, first half: updated_pv.display(updating_pv=pv),
\* which redraws unless the data is empty.
TickDisplay(p, empty) ==
  /\ tl[p].status = "started"
  /\ tl[p].tick = "sleep"
  /\ tl' = [tl EXCEPT ![p].tick = IF empty THEN "skipped" ELSE "updated",
                       ![p].final = IF empty THEN @ ELSE IsTerminated]
  /\ UNCHANGED <<manager, pc, op, arg, calls, result, pre, locals, result_state>>

\* Mutant: a RuntimeError of tl.stop() leaves the job.
SwallowedNever(out) == out

\* try: tl.stop() / except RuntimeError: pass
Swallowed(out) == IF out = RuntimeError THEN Ok ELSE out

\* Mutant: the job stops after its first update.
StopsTimeloopAlways == TRUE

\* if ie.current_env().is_terminated(pcoll.pipeline)
StopsTimeloop == IsTerminated

\* continuous_update_display, second half: the test of is_terminated and
\* tl.stop().  A stop that raises has stopped the job all the same.
TickCheck(p, out) ==
  /\ tl[p].tick \in {"skipped", "updated"}
  /\ out \in StopOutcomes
  /\ IF StopsTimeloop
       THEN tl' = [tl EXCEPT ![p].tick = "sleep",
                             ![p].status = "stopped",
                             ![p].raised = Swallowed(out) # Ok]
     ELSE /\ out = Ok
          /\ tl' = [tl EXCEPT ![p].tick = "sleep"]
  /\ UNCHANGED <<manager, pc, op, arg, calls, result, pre, locals, result_state>>

\* handle.stop() by the caller that kept what visualize returned.
HandleStop(p) ==
  /\ tl[p].status = "started"
  /\ tl[p].handle
  /\ tl' = [tl EXCEPT ![p].status = "stopped"]
  /\ UNCHANGED <<manager, pc, op, arg, calls, result, pre, locals, result_state>>

\* The running pipeline reaches an end state.
PipelineTerminates(s) ==
  /\ result_state = "RUNNING"
  /\ s \in PipelineStates \ {"RUNNING"}
  /\ result_state' = s
  /\ UNCHANGED <<manager, pc, op, arg, calls, result, pre, locals, tl>>

InteractiveStep(t) ==
  \/ \E a \in ShowArgs : CallShow(t, a)
  \/ \E a \in HeadArgs : CallHead(t, a)
  \/ \E a \in VisualizeArgs : CallVisualize(t, a)
  \/ VisualizeBody(t)
  \/ \E out \in RunOutcomes, s \in PipelineStates : RunFragment(t, out, s)
  \/ ShowVisualizeDynamic(t)
  \/ \E out \in RunOutcomes : WaitUntilFinish(t, out)
  \/ ShowVisualizePlain(t)
  \/ \E out \in RunOutcomes, read \in 0..MaxHead : HeadGet(t, out, read)
  \/ Mark(t)

InteractiveNext ==
  \/ InteractiveStep(Main)
  \/ \E p \in Pcolls, empty \in BOOLEAN : TickDisplay(p, empty)
  \/ \E p \in Pcolls, out \in StopOutcomes : TickCheck(p, out)
  \/ \E p \in Pcolls : HandleStop(p)
  \/ \E s \in PipelineStates : PipelineTerminates(s)

\* A notebook or shell session before any call of show, head or visualize;
\* the pipeline may have been run before.
InteractiveInit ==
  /\ ManagerInit
  /\ lifecycle = "unobserved"
  /\ cluster = "NONE"
  /\ result_state \in PipelineStates
  /\ tl = [p \in Pcolls |-> NoTimeloop]

InteractiveSpec == InteractiveInit /\ [][InteractiveNext]_vars

----------------------------------------------------------------------------
(* Properties *)

RpcApis == {"create_cluster", "delete_cluster", "get_cluster"}
FsApis == {"_fs._list", "_fs.open", "_fs.delete"}

\* Thread t has finished a call of method o.
Finished(t, o) == pc[t] = "done" /\ op[t] = o

\* Thread t runs or has finished a call of create_cluster whose create RPC
\* ended with `out`.
CreateRpcEnded(t, out) ==
  /\ op[t] = "create_cluster"
  /\ Len(calls[t]) >= 1
  /\ calls[t][1].api = "create_cluster"
  /\ calls[t][1].out = out

\* C1: a create_cluster call that finds master_url set makes no call at all
\* (no RPC, no object-store call), changes no field, and returns.
C1_SetMasterUrlShortCircuits ==
  \A t \in Threads :
    (op[t] = "create_cluster" /\ pre[t].master_url # None) =>
      /\ calls[t] = <<>>
      /\ Snapshot = pre[t]
      /\ pc[t] \in {"create_guard", "done"}
      /\ pc[t] = "done" => result[t] = Return(NoDescriptor)

C1_Witness ==
  \E t \in Threads :
    /\ Finished(t, "create_cluster")
    /\ pre[t].master_url # None
    /\ result[t].kind = "return"
    /\ calls[t] = <<>>

\* C2: a create RPC that fails with 409 makes create_cluster return without
\* raising, with no further call and no field changed.
C2_ConflictIsAbsorbed ==
  \A t \in Threads :
    CreateRpcEnded(t, ApiError(409)) =>
      /\ pc[t] = "done"
      /\ result[t] = Return(NoDescriptor)
      /\ Len(calls[t]) = 1
      /\ Snapshot = pre[t]

C2_Witness ==
  \E t \in Threads :
    /\ CreateRpcEnded(t, ApiError(409))
    /\ pc[t] = "done"
    /\ result[t].kind = "return"

\* A ValueError whose message names `name`, raised with no further call and
\* no field changed.
DomainErrorNaming(t, name) ==
  /\ pc[t] = "done"
  /\ result[t].kind = "raise"
  /\ result[t].exc.type = "ValueError"
  /\ Contains(name, result[t].exc.msg)
  /\ Len(calls[t]) = 1
  /\ Snapshot = pre[t]

\* C3: a create RPC that fails with 403 raises a ValueError naming the
\* project id, one that fails with 501 a ValueError naming the region; the
\* metadata and the staging directory are unchanged.
C3_PermissionAndRegionAreTranslated ==
  \A t \in Threads :
    /\ CreateRpcEnded(t, ApiError(403)) => DomainErrorNaming(t, project_id)
    /\ CreateRpcEnded(t, ApiError(501)) => DomainErrorNaming(t, region)

C3_Witness ==
  \E t \in Threads :
    /\ CreateRpcEnded(t, ApiError(501))
    /\ DomainErrorNaming(t, region)
    /\ ~Contains(cluster_name, result[t].exc.msg)

\* C4 (as claimed): every failure of the create RPC other than 409, 403 and
\* 501, with or without a code, is re-raised as it is, the metadata unchanged.
C4_OtherFailuresAreReraised ==
  \A t \in Threads :
    \A e \in ProviderErrors :
      (CreateRpcEnded(t, e) /\ ~(e.hasCode /\ e.code \in {409, 403, 501})) =>
        /\ pc[t] = "done"
        /\ result[t] = Raise(e)
        /\ Snapshot = pre[t]

\* The staging location, stated on the bucket: the path of the first object
\* under the metainfo prefix that holds the cluster's name, up to that name.
ExpectedStaging ==
  LET named == {f \in store :
                  /\ StartsWith(FilePath(f), MetainfoPath(ConfigBucket))
                  /\ Contains(cluster_name, FilePath(f))}
  IN IF named = {} THEN None
     ELSE LET f == CHOOSE f \in named : \A g \in named : f <= g
          IN SubSeq(FilePath(f), 1, Find(cluster_name, FilePath(f)) - 1)

\* The endpoint, stated on the bucket: the parse of the first marker line,
\* by object and then by line, of the startup logs under `directory`.
ExpectedEndpoint(directory) ==
  LET logs == {f \in store :
                 /\ directory # None
                 /\ StartsWith(FilePath(f), directory)
                 /\ Contains(DATAPROC_STAGING_LOG_NAME, FilePath(f))}
      marked == UNION {{<<f, i>> : i \in {i \in DOMAIN FileLines(f) :
                          Contains(<<"F","o","u","n","d"," ","W","e","b"," ","I","n","t","e","r","f","a","c","e">>, FileLines(f)[i])}} : f \in logs}
  IN IF marked = {} THEN <<None, None>>
     ELSE LET p == CHOOSE p \in marked : \A q \in marked :
                     p[1] < q[1] \/ (p[1] = q[1] /\ p[2] <= q[2])
              parsed == ParseMasterUrlAndDashboard(FileLines(p[1])[p[2]], YarnEndpoint)
          IN <<parsed.master_url, parsed.dashboard>>

\* The stage of create_cluster an entry of calls[t] belongs to.
Stage(e) ==
  IF e.api = "create_cluster" THEN 1
  ELSE IF e.by = "wait_for_cluster_to_provision" THEN 2
  ELSE IF e.by = "get_staging_location" THEN 3
  ELSE IF e.api = "assign" /\ e.req[1] = "_staging_directory" THEN 4
  ELSE IF e.by \in {"get_master_url_and_dashboard", "parse_master_url_and_dashboard"} THEN 5
  ELSE IF e.api = "assign" THEN 6
  ELSE 0

\* C5: in a create_cluster call whose create RPC succeeded, the calls are
\* made in the order create RPC, wait, staging resolution, endpoint
\* resolution, metadata write; once staging resolution has returned, the
\* staging directory is the resolved location; and when the call returns,
\* master_url and dashboard are the pair endpoint resolution found in that
\* directory (None, None when no log holds the marker).  Until then the
\* metadata is as the call found it.
C5_SuccessfulCreateResolvesAndWrites ==
  \A t \in Threads :
    CreateRpcEnded(t, Ok) =>
      LET stages == [i \in DOMAIN calls[t] |-> Stage(calls[t][i])]
          returned == pc[t] = "done" /\ result[t].kind = "return"
      IN /\ \A i, j \in DOMAIN stages : i < j => stages[i] <= stages[j]
         /\ (\E i \in DOMAIN stages : stages[i] = 4) =>
              staging_directory = ExpectedStaging
         /\ returned =>
              /\ <<master_url, dashboard>> = ExpectedEndpoint(staging_directory)
              /\ {stages[i] : i \in DOMAIN stages} = 1..6
         /\ ~returned =>
              /\ <<master_url, dashboard>> = <<pre[t].master_url, pre[t].dashboard>>
              /\ \A i \in DOMAIN stages : stages[i] # 6

C5_Witness ==
  \E t \in Threads :
    /\ CreateRpcEnded(t, Ok)
    /\ pc[t] = "done"
    /\ result[t].kind = "return"
    /\ master_url = <<"h",":","1">>
    /\ dashboard = <<"h","t","t","p","s",":","/","/","k","/","g","a","t","e","w","a","y","/","d","e","f","a","u","l","t","/","y","a","r","n","/","p","r","o","x","y","/","a","1","/">>
    /\ staging_directory = MetainfoPath(ConfigBucket) \o <<"u","1","/">>
    /\ 2 \in store

\* C6: master_url and dashboard are None unless some create RPC has returned
\* success, and an invocation that is not a create_cluster whose create RPC
\* returned success has left both as it found them.
C6_MetadataSetOnlyAfterCreateSuccess ==
  /\ (master_url # None \/ dashboard # None) => create_succeeded
  /\ \A t \in Threads :
       (pc[t] # "idle" /\ ~CreateRpcEnded(t, Ok)) =>
         <<master_url, dashboard>> = <<pre[t].master_url, pre[t].dashboard>>

C6_Witness ==
  \E t \in Threads :
    /\ CreateRpcEnded(t, ApiError(409))
    /\ pc[t] = "done"
    /\ cluster = "RUNNING"
    /\ 3 \in store
    /\ master_url = None
    /\ ~create_succeeded

\* Thread t runs or has finished a cleanup whose delete RPC succeeded.
DeleteRpcSucceeded(t) ==
  /\ op[t] = "cleanup"
  /\ \E i \in DOMAIN calls[t] :
       calls[t][i].api = "delete_cluster" /\ calls[t][i].out = Ok

\* C7: in a cleanup whose delete RPC succeeds with the staging directory
\* resolved, the delete RPC, for the stored project, region and cluster
\* name, precedes every object-store call, and when cleanup returns every
\* object that was listed under the staging directory has been passed to the
\* object-store delete and is gone.
C7_DeleteClusterThenStagingObjects ==
  \A t \in Threads :
    (DeleteRpcSucceeded(t) /\ Truthy(pre[t].staging_directory)) =>
      /\ calls[t][1].api = "delete_cluster"
      /\ calls[t][1].req = ClusterRequest
      /\ \A i \in DOMAIN calls[t] : calls[t][i].api \in FsApis => i > 1
      /\ (pc[t] = "done" /\ result[t].kind = "return") =>
           /\ [i \in DOMAIN calls[t] |-> calls[t][i].api]
                = <<"delete_cluster", "_fs._list", "_fs.delete">>
           /\ calls[t][2].req = <<staging_directory>>
           /\ \A i \in DOMAIN staging_files[t] :
                /\ \E k \in DOMAIN calls[t][3].req :
                     calls[t][3].req[k] = FilePath(staging_files[t][i])
                /\ staging_files[t][i] \notin store
           /\ \A f \in store : ~StartsWith(FilePath(f), staging_directory)

C7_Witness ==
  \E t \in Threads :
    /\ DeleteRpcSucceeded(t)
    /\ Truthy(pre[t].staging_directory)
    /\ pc[t] = "done"
    /\ result[t].kind = "return"
    /\ Len(staging_files[t]) >= 2
    /\ store # {}

\* C8: a cleanup that finds the staging directory None issues one
\* delete-cluster RPC and makes no object-store call.
C8_UnresolvedStagingDeletesNothing ==
  \A t \in Threads :
    (op[t] = "cleanup" /\ pre[t].staging_directory = None) =>
      /\ \A i \in DOMAIN calls[t] : calls[t][i].api \notin FsApis
      /\ pc[t] = "done" =>
           /\ Len(calls[t]) = 1
           /\ calls[t][1].api = "delete_cluster"
           /\ calls[t][1].req = ClusterRequest

C8_Witness ==
  \E t \in Threads :
    /\ Finished(t, "cleanup")
    /\ pre[t].staging_directory = None
    /\ calls[t][1].out = Ok
    /\ result[t].kind = "return"
    /\ store # {}

\* C9 (as claimed): a delete RPC that fails with 403 raises a ValueError
\* naming the project, one that fails with 404 a ValueError naming the
\* cluster, and every other failure of the delete RPC is propagated as it is.
C9_DeleteFailuresAreTriaged ==
  \A t \in Threads :
    \A e \in ProviderErrors :
      (Finished(t, "cleanup") /\ calls[t][1].out = e) =>
        /\ result[t].kind = "raise"
        /\ IF e.hasCode /\ e.code = 403
             THEN /\ result[t].exc.type = "ValueError"
                  /\ Contains(project_id, result[t].exc.msg)
           ELSE IF e.hasCode /\ e.code = 404
             THEN /\ result[t].exc.type = "ValueError"
                  /\ Contains(cluster_name, result[t].exc.msg)
           ELSE result[t].exc = e

\* C10 (as claimed): get_cluster_details returns the descriptor the RPC
\* returned, raises a ValueError on 403 and 404, propagates every other
\* failure as it is, and in every outcome changes no field and makes no
\* other call.
C10_GetClusterDetailsIsATriagedRead ==
  \A t \in Threads :
    Finished(t, "get_cluster_details") =>
      /\ Snapshot = pre[t]
      /\ Len(calls[t]) = 1
      /\ calls[t][1].api = "get_cluster"
      /\ LET e == calls[t][1].out
         IN IF e = Ok
              THEN /\ result[t].kind = "return"
                   /\ result[t].value \in {Descriptor(s) : s \in {"CREATING", "RUNNING"}}
            ELSE IF e.hasCode /\ e.code \in {403, 404}
              THEN /\ result[t].kind = "raise"
                   /\ result[t].exc.type = "ValueError"
            ELSE result[t] = Raise(e)

\* The calls wait_for_cluster_to_provision has made in the running method.
WaitEntries(t) ==
  SelectSeq(calls[t], LAMBDA e : e.by = "wait_for_cluster_to_provision")

\* The calls a step adds to the record of thread t.
Added(t) == SubSeq(calls'[t], Len(calls[t]) + 1, Len(calls'[t]))

\* The calls of the loop alternate get-cluster and a sleep of 15, starting
\* with get-cluster, and every sleep follows a get-cluster that returned.
C11_PollsAlternate ==
  \A t \in Threads :
    LET w == WaitEntries(t)
    IN \A i \in 1..Len(w) :
         IF i % 2 = 1
           THEN w[i].api = "get_cluster"
         ELSE /\ w[i].api = "time.sleep"
              /\ w[i].req = <<15>>
              /\ w[i - 1].out = Ok

\* A round of the loop: it returns only on a get-cluster that reported a state
\* other than CREATING, a report of CREATING is followed by the sleep and
\* another round, and a failed get-cluster raises.
C11_PollStep ==
  \A t \in Threads :
    pc[t] = "wait" /\ calls'[t] # calls[t] =>
      LET get == Added(t)[1]
      IN /\ get.api = "get_cluster"
         /\ get.by = "wait_for_cluster_to_provision"
         /\ IF get.out = Ok /\ cluster = "CREATING"
              THEN pc'[t] = "wait" /\ Len(Added(t)) = 2
            ELSE IF get.out = Ok
              THEN pc'[t] = "details" /\ Len(Added(t)) = 1
            ELSE pc'[t] = "done" /\ result'[t].kind = "raise" /\ Len(Added(t)) = 1

\* Once the loop is left, the running method makes no further call of it.
C11_NoPollAfterExit ==
  \A t \in Threads :
    pc[t] \in {"details", "list_meta", "list_staging", "open_log", "parse"} =>
      /\ pc'[t] # "wait"
      /\ WaitEntries(t)' = WaitEntries(t)

\* C11: wait_for_cluster_to_provision returns normally only after a
\* get-cluster call reported a state other than CREATING; while polls report
\* CREATING it alternates one get-cluster call and one sleep of 15, and it
\* polls no more after the first other observation.
C11_WaitReturnsOnlyAfterNonCreating ==
  /\ []C11_PollsAlternate
  /\ [][C11_PollStep /\ C11_NoPollAfterExit]_vars

\* The loop has slept once and then returned.
C11_Witness ==
  /\ pc[Main] = "details"
  /\ Len(WaitEntries(Main)) = 3

\* Under the fairness of FairSpec the loop is eventually left.
C12_EventuallyLeft ==
  \A t \in Threads : (pc[t] = "wait") ~> (pc[t] # "wait")

\* While the cluster is CREATING the loop is left only by a get-cluster call
\* that fails: no number of polls makes it return.
C12_StaysWhileCreating ==
  \A t \in Threads :
    pc[t] = "wait" /\ cluster = "CREATING" /\ pc'[t] # "wait" =>
      /\ pc'[t] = "done"
      /\ result'[t].kind = "raise"
      /\ Added(t)[1].out # Ok

\* C12: wait_for_cluster_to_provision terminates if and only if a poll
\* observes a state other than CREATING or fails: it eventually returns when
\* the cluster eventually leaves CREATING, and while the cluster stays
\* CREATING it does not return, whatever the number of polls made.
C12_WaitTerminatesIffClusterLeavesCreating ==
  /\ C12_EventuallyLeft
  /\ [][C12_StaysWhileCreating]_vars

\* The loop has gone round as often as the bound lets it and still waits.
C12_Witness ==
  /\ pc[Main] = "wait"
  /\ cluster = "CREATING"
  /\ polls[Main] = MaxPolls

\* C13: get_staging_location lists the bucket's metainfo prefix only after
\* the provisioning loop has returned and its own get-cluster call has
\* returned; when the listing returns it returns the part before the
\* cluster's name of the first listed path holding that name, and None,
\* raising nothing, when no listed path holds it.
C13_StagingLocationIsFirstNamedPrefix ==
  \A t \in Threads :
    \A i \in 1..Len(calls[t]) :
      calls[t][i].by = "get_staging_location" /\ calls[t][i].api = "_fs._list" =>
        /\ i >= 3
        /\ calls[t][i].req = <<MetainfoPath(ConfigBucket)>>
        /\ calls[t][i - 1] =
             Entry("get_cluster", "get_staging_location", ClusterRequest, Ok)
        /\ calls[t][i - 2] =
             Entry("get_cluster", "wait_for_cluster_to_provision", ClusterRequest, Ok)
        /\ \A j \in 1..Len(calls[t]) :
             calls[t][j].by = "wait_for_cluster_to_provision" => j <= i - 2
        /\ IF calls[t][i].out = Ok
             THEN /\ Len(calls[t]) > i
                  /\ calls[t][i + 1].api = "assign"
                  /\ calls[t][i + 1].req = <<"_staging_directory", ExpectedStaging>>
                  /\ ExpectedStaging = None <=>
                       ~\E f \in store :
                          /\ StartsWith(FilePath(f), MetainfoPath(ConfigBucket))
                          /\ Contains(cluster_name, FilePath(f))
           ELSE /\ Len(calls[t]) = i
                /\ result[t] = Raise(calls[t][i].out)

\* Two listed paths hold the cluster's name; the first one's prefix was taken.
C13_Witness ==
  /\ pc[Main] = "list_staging"
  /\ {1, 3} \subseteq store
  /\ staging_directory # None

\* The objects under `directory` whose path holds the startup-log filename,
\* in listing order.
Candidates(directory) ==
  IF directory = None THEN <<>>
  ELSE Sorted({f \in store :
                 /\ StartsWith(FilePath(f), directory)
                 /\ Contains(DATAPROC_STAGING_LOG_NAME, FilePath(f))})

\* The lines of object f that hold the marker.
MarkerLines(f) ==
  {i \in DOMAIN FileLines(f) :
     Contains(<<"F","o","u","n","d"," ","W","e","b"," ","I","n","t","e","r","f","a","c","e">>, FileLines(f)[i])}

\* The objects get_master_url_and_dashboard has opened in the running method.
Opens(t) ==
  SelectSeq(calls[t], LAMBDA e :
    e.by = "get_master_url_and_dashboard" /\ e.api = "_fs.open")

\* C14: get_master_url_and_dashboard opens only objects of the staging
\* directory whose path holds the startup-log filename, in listing order, and
\* stops at the first one with a line holding 'Found Web Interface'; what it
\* returns is the parsed pair of the first such line of that object, and
\* (None, None) when it has opened every candidate and none holds the marker.
C14_EndpointIsFirstMarkerOfStartupLogs ==
  \A t \in Threads :
    op[t] = "create_cluster" =>
      LET opens == Opens(t)
          cands == Candidates(staging_directory)
          marked == {k \in 1..Len(cands) : MarkerLines(cands[k]) # {}}
      IN /\ Len(opens) <= Len(cands)
         /\ \A k \in 1..Len(opens) :
              /\ opens[k].req = <<FilePath(cands[k])>>
              /\ k < Len(opens) => opens[k].out = Ok /\ k \notin marked
         /\ pc[t] = "done" /\ result[t].kind = "return" /\ CreateRpcEnded(t, Ok) =>
              IF marked = {}
                THEN /\ Len(opens) = Len(cands)
                     /\ <<master_url, dashboard>> = <<None, None>>
              ELSE LET k == CHOOSE k \in marked : \A j \in marked : k <= j
                       i == CHOOSE i \in MarkerLines(cands[k]) :
                              \A j \in MarkerLines(cands[k]) : i <= j
                       parsed == ParseMasterUrlAndDashboard(FileLines(cands[k])[i],
                                                            YarnEndpoint)
                   IN /\ Len(opens) = k
                      /\ <<master_url, dashboard>> = <<parsed.master_url, parsed.dashboard>>

\* The first startup log held no marker and the second one did.
C14_Witness ==
  /\ Finished(Main, "create_cluster")
  /\ result[Main].kind = "return"
  /\ Len(Opens(Main)) = 2
  /\ master_url # None

\* The YARN ResourceManager endpoint with its '/yarn/' segment replaced by
\* '/gateway/default/yarn/proxy/<id>/'.
ProxyOf(id) ==
  LET segment == <<"/","y","a","r","n","/">>
      k == Find(segment, YarnEndpoint)
  IN SubSeq(YarnEndpoint, 1, k - 1)
       \o <<"/","g","a","t","e","w","a","y","/","d","e","f","a","u","l","t","/","y","a","r","n","/","p","r","o","x","y","/">>
       \o id \o <<"/">>
       \o SubSeq(YarnEndpoint, k + Len(segment), Len(YarnEndpoint))

\* A call of parse_master_url_and_dashboard on its own has returned, and its
\* line was text, the marker, url, ' of application ', the quoted id, '.'
\* and end.
ParsedLine(t, text, url, id, end) ==
  /\ Finished(t, "parse_master_url_and_dashboard")
  /\ result[t].kind = "return"
  /\ arg[t] = LogLine(text, url, id, end)

\* C15 (as claimed): for a line "<text>Found Web Interface <url> of
\* application '<id>'." with or without a trailing newline,
\* parse_master_url_and_dashboard returns <url> and the YARN endpoint with
\* '/yarn/' replaced by '/gateway/default/yarn/proxy/<id>/'.
C15_ParsedPairOfAnyLine ==
  \A t \in Threads :
    \A text \in Texts, url \in Urls, id \in ApplicationIds, end \in LineEnds :
      ParsedLine(t, text, url, id, end) =>
        result[t].value = Pair(url, ProxyOf(id))

\* C15 (amended): for such a line ending with a newline the pair is <url>
\* and the endpoint with '/yarn/' replaced by
\* '/gateway/default/yarn/proxy/<id>/'; for such a line without the newline
\* the '.' after the closing quote stays in the id, so that the segment is
\* '/gateway/default/yarn/proxy/<id>./'.
C15_ParsedPairOfTerminatedLine ==
  \A t \in Threads :
    \A text \in Texts, url \in Urls, id \in ApplicationIds, end \in LineEnds :
      ParsedLine(t, text, url, id, end) =>
        result[t].value =
          Pair(url, ProxyOf(IF end = <<"\n">> THEN id ELSE id \o <<".">>))

\* A line with text before the marker and a newline at its end was parsed.
C15_Witness ==
  \E url \in Urls, id \in ApplicationIds :
    /\ ParsedLine(Main, <<"x"," ">>, url, id, <<"\n">>)
    /\ result[Main].value.dashboard = ProxyOf(id)

\* The line is of the documented format.
WellFormed(line) ==
  \E text \in Texts, url \in Urls, id \in ApplicationIds, end \in LineEnds :
    line = LogLine(text, url, id, end)

\* C16 (as claimed): parse_master_url_and_dashboard makes no RPC and no
\* object-store call, fails with no error of the control plane, and what it
\* returns is decided by its line alone.
C16_ParseIsPure ==
  \A t \in Threads :
    op[t] = "parse_master_url_and_dashboard" =>
      /\ \A i \in 1..Len(calls[t]) : calls[t][i].api \notin RpcApis \cup FsApis
      /\ pc[t] = "done" =>
           IF WellFormed(arg[t]) THEN result[t].kind = "return"
           ELSE result[t] = Raise(IndexError)

\* C16 (amended): parse_master_url_and_dashboard makes exactly one call, the
\* get-cluster RPC of get_cluster_details, before it parses, and no
\* object-store call; it changes no field; when the RPC fails it raises what
\* get_cluster_details raises and parses nothing; when the RPC returns, the
\* line decides whether it returns a pair or raises IndexError.
C16_ParseReadsTheCluster ==
  \A t \in Threads :
    op[t] = "parse_master_url_and_dashboard" =>
      /\ Snapshot = pre[t]
      /\ pc[t] = "parse" => calls[t] = <<>>
      /\ pc[t] = "done" =>
           /\ Len(calls[t]) = 1
           /\ calls[t][1].api = "get_cluster"
           /\ calls[t][1].by = "parse_master_url_and_dashboard"
           /\ IF calls[t][1].out # Ok
                THEN /\ result[t].kind = "raise"
                     /\ result[t].exc.type # "IndexError"
              ELSE IF WellFormed(arg[t])
                THEN /\ result[t].kind = "return"
                     /\ result[t].value.master_url \in Urls
              ELSE result[t] = Raise(IndexError)

\* A line of the documented format was given and the call raised the
\* ValueError of get_cluster_details.
C16_Witness ==
  /\ Finished(Main, "parse_master_url_and_dashboard")
  /\ WellFormed(arg[Main])
  /\ result[Main].kind = "raise"
  /\ result[Main].exc.type = "ValueError"

\* C17: only create_cluster absorbs the code 409.  A delete-cluster or
\* get-cluster RPC that fails with 409 is the last call of the method that
\* made it, and that method (cleanup, get_cluster_details, and the methods
\* that call get_cluster_details) raises the provider's error and changes no
\* field; a create RPC that fails with 409 lets create_cluster return.
C17_ConflictAbsorbedOnlyByCreate ==
  \A t \in Threads :
    \A i \in 1..Len(calls[t]) :
      calls[t][i].out = ApiError(409) =>
        IF calls[t][i].api = "create_cluster"
          THEN pc[t] = "done" /\ result[t].kind = "return"
        ELSE /\ calls[t][i].api \in {"delete_cluster", "get_cluster"}
             /\ i = Len(calls[t])
             /\ pc[t] = "done"
             /\ result[t] = Raise(ApiError(409))
             /\ op[t] \in {"cleanup", "get_cluster_details"} => Snapshot = pre[t]

\* The delete RPC of cleanup failed with 409.
C17_Witness ==
  /\ Finished(Main, "cleanup")
  /\ calls[Main][1].out = ApiError(409)
  /\ result[Main].kind = "raise"

\* The fields a step of thread t assigns.
Assigned(t) ==
  {Added(t)[i].req[1] : i \in {i \in 1..Len(Added(t)) : Added(t)[i].api = "assign"}}

C18_NoAssignmentOnceMasterUrlSet ==
  \A t \in Threads :
    Truthy(master_url) /\ Len(calls'[t]) > Len(calls[t]) =>
      /\ Assigned(t) = {}
      /\ UNCHANGED <<master_url, dashboard, staging_directory>>

Indices(t, api) == {i \in 1..Len(calls[t]) : calls[t][i].api = api}

\* The positions of the wait_until_finish calls that returned.
Waited(t) == {i \in Indices(t, "wait_until_finish") : calls[t][i].out = Ok}

\* The record of a show or head: a call that returned has run the fragment,
\* recorded its result next, and waited for it afterwards; elements are read
\* and PCollections are marked only after a wait_until_finish that returned.
C19_WaitPrecedes ==
  \A t \in Threads :
    op[t] \in {"show", "head"} =>
      /\ pc[t] = "done" /\ result[t].kind = "return" =>
           \E i \in Indices(t, "PipelineFragment.run") :
             /\ calls[t][i].out = Ok
             /\ calls[t][i + 1].api = "set_pipeline_result"
             /\ \E w \in Waited(t) : w > i + 1
      /\ \A g \in Indices(t, "result.get") : \E w \in Waited(t) : w < g
      /\ \A m \in Indices(t, "mark_pcollection_computed") :
           /\ \E w \in Waited(t) : w < m
           /\ calls[t][m].req = arg[t].pcolls
      /\ op[t] = "head" /\ pc[t] = "done" /\ result[t].kind = "return" =>
           Indices(t, "result.get") # {}

\* The step that ends a show or head marks the PCollections exactly when
\* the result's state is DONE at that step, and no other step marks them.
C19_MarkedIffDone ==
  \A t \in Threads :
    LET marks == \E i \in 1..Len(Added(t)) :
                   Added(t)[i].api = "mark_pcollection_computed"
        returns == /\ op[t] \in {"show", "head"}
                   /\ pc[t] # "done" /\ pc'[t] = "done"
                   /\ result'[t].kind = "return"
    IN /\ marks => returns
       /\ returns => (marks <=> result_state = "DONE")

Checking(p) == tl[p].tick \in {"skipped", "updated"}

\* This step is the end of a tick of the job of p, which stops the job.
StopsItself(p) ==
  /\ Checking(p)
  /\ tl'[p].tick = "sleep"
  /\ tl[p].status = "started"
  /\ tl'[p].status = "stopped"

\* visualize starts a job only in a notebook, with a plotting interval that
\* counts as true, when the module's imports are ready; a call of visualize
\* on its own returns the Timeloop in that case and None otherwise.
C20_JobOnlyInNotebook ==
  /\ \A p \in Pcolls :
       tl[p].status # "started" /\ tl'[p].status = "started" =>
         \E t \in Threads :
           /\ pc[t] \in {"visualize", "visualize_dynamic"}
           /\ pc'[t] # pc[t]
           /\ p \in Range(arg[t].pcolls)
           /\ arg[t].frontend.is_in_notebook
           /\ arg[t].frontend.pcoll_visualization_ready
           /\ op[t] = "visualize" => arg[t].interval = "1"
  /\ \A t \in Threads :
       pc[t] = "visualize" /\ pc'[t] = "done" =>
         LET p == arg[t].pcolls[1]
             job == /\ arg[t].frontend.is_in_notebook
                    /\ arg[t].frontend.pcoll_visualization_ready
                    /\ arg[t].interval = "1"
         IN /\ result'[t] = Return([timeloop |-> IF job THEN p ELSE "None"])
            /\ job => tl'[p].status = "started" /\ tl'[p].handle
            /\ ~job => tl'[p] = tl[p]

\* C20 (as claimed): the job of a dynamic plot stops itself only on a tick
\* that observes the pipeline terminated and on the first such tick; every
\* tick has updated the display before it checks; when the job stops itself
\* the display has been updated since the pipeline terminated; a stop that
\* raises RuntimeError is ignored; and no job is started without a notebook
\* or an interval, None being returned.
C20_UpdatesUntilTerminated ==
  /\ [](\A p \in Pcolls : tl[p].tick # "skipped" /\ ~tl[p].raised)
  /\ [][\A p \in Pcolls :
          /\ StopsItself(p) => IsTerminated /\ tl'[p].final
          /\ Checking(p) /\ IsTerminated /\ tl'[p] # tl[p] => tl'[p].status = "stopped"
      ]_vars
  /\ [][C20_JobOnlyInNotebook]_vars

\* A tick of the job of p: display is called once, and it redraws unless the
\* data is empty; then is_terminated is read, and the job is stopped exactly
\* when it answers true.  The job is stopped by nothing else than such a tick
\* or a stop of the returned handle, and a stopped job ticks no more.
C20_Tick ==
  \A p \in Pcolls :
    /\ tl[p].tick = "sleep" /\ tl'[p].tick # "sleep" =>
         /\ tl[p].status = "started"
         /\ tl'[p].status = "started"
         /\ tl'[p].tick = "updated" => tl'[p].final = IsTerminated
         /\ tl'[p].tick = "skipped" => tl'[p].final = tl[p].final
    /\ Checking(p) /\ tl'[p] # tl[p] /\ tl'[p].tick = "sleep" =>
         tl'[p].status = IF IsTerminated THEN "stopped" ELSE tl[p].status
    /\ tl[p].status = "started" /\ tl'[p].status = "stopped" =>
         \/ StopsItself(p) /\ IsTerminated
         \/ tl[p].handle /\ tl'[p].tick = tl[p].tick
    /\ tl[p].status = "stopped" /\ tl[p].tick = "sleep" /\ tl'[p] # tl[p] =>
         tl'[p].status = "started" /\ tl'[p].tick = "sleep"

\* C20 (amended): every tick calls display once, which redraws unless the
\* data is empty, and then reads is_terminated; the job stops itself on the
\* first tick that reads true and is otherwise stopped only through the
\* returned handle; a RuntimeError of tl.stop() never leaves the job; no job
\* is started without a notebook, an interval or the module's imports, None
\* being returned.
C20_TickUpdatesThenChecks ==
  /\ [](\A p \in Pcolls : ~tl[p].raised)
  /\ [][C20_Tick]_vars
  /\ [][C20_JobOnlyInNotebook]_vars

\* A job started by show has stopped itself, the display not updated since
\* the pipeline terminated.
C20_Witness ==
  \E p \in Pcolls :
    /\ tl[p].status = "stopped"
    /\ ~tl[p].handle
    /\ ~tl[p].final
    /\ result_state # "RUNNING"

\* Thread t runs or has finished a cleanup whose delete RPC failed.
DeleteRpcFailed(t) ==
  /\ op[t] = "cleanup"
  /\ Len(calls[t]) >= 1
  /\ calls[t][1].api = "delete_cluster"
  /\ calls[t][1].out # Ok

\* A failed delete RPC is the only call of its cleanup, which has raised.
C21_FailedDeleteEndsCleanup ==
  \A t \in Threads :
    DeleteRpcFailed(t) =>
      /\ Len(calls[t]) = 1
      /\ pc[t] = "done"
      /\ result[t].kind = "raise"

\* Every call of cleanup_staging_files comes after a delete RPC of the same
\* cleanup that returned.
C21_StagingCallsFollowDelete ==
  \A t \in Threads :
    \A i \in 1..Len(calls[t]) :
      calls[t][i].by = "cleanup_staging_files" =>
        /\ i > 1
        /\ calls[t][1].api = "delete_cluster"
        /\ calls[t][1].out = Ok

\* The step in which the delete RPC fails leaves every object in place.
C21_FailedDeleteKeepsObjects ==
  \A t \in Threads :
    (pc[t] = "delete_rpc" /\ DeleteRpcFailed(t)') => store' = store

\* C21: when the delete-cluster RPC of cleanup fails, whatever its code,
\* cleanup lists nothing and deletes nothing: the failed RPC is its only
\* call, every object stays in the store and cleanup raises; the listing
\* and the deletion of staging objects come only after a delete RPC that
\* returned.
C21_FailedDeleteLeavesStagingFiles ==
  /\ []C21_FailedDeleteEndsCleanup
  /\ []C21_StagingCallsFollowDelete
  /\ [][C21_FailedDeleteKeepsObjects]_vars

\* The delete RPC failed with the staging directory resolved and staging
\* objects in the store.
C21_Witness ==
  /\ Finished(Main, "cleanup")
  /\ DeleteRpcFailed(Main)
  /\ calls[Main][1].out = ApiError(500)
  /\ Truthy(staging_directory)
  /\ \E f \in store : StartsWith(FilePath(f), staging_directory)

\* No step of a cleanup writes a field, and a cleanup that has returned or
\* raised leaves the fields as it found them.
C22_CleanupStep ==
  \A t \in Threads :
    (op[t] = "cleanup" /\ op'[t] = "cleanup") =>
      UNCHANGED <<master_url, dashboard, staging_directory>>

C22_CleanupFrame ==
  \A t \in Threads :
    op[t] = "cleanup" =>
      /\ Snapshot = pre[t]
      /\ \A i \in 1..Len(calls[t]) : calls[t][i].api # "assign"

\* Thread t runs or has finished a create_cluster that made no call.
NoOp(t) ==
  /\ op[t] = "create_cluster"
  /\ calls[t] = <<>>
  /\ pc[t] = "done" => result[t].kind = "return"

\* C22 (as claimed): cleanup never modifies master_url, dashboard or the
\* staging directory, and once a create_cluster that created the cluster has
\* returned and a cleanup after it has returned, every later create_cluster
\* makes no call and the cluster stays deleted.
C22_NoOpAfterCreateAndCleanup ==
  /\ []C22_CleanupFrame
  /\ [][C22_CleanupStep]_vars
  /\ [](\A t \in Threads :
          (lifecycle = "deleted" /\ op[t] = "create_cluster") => NoOp(t))
  /\ [][lifecycle = "deleted" => cluster' = cluster]_vars

\* C22 (amended): cleanup never modifies master_url, dashboard or the
\* staging directory, so a master_url that create_cluster set to a non-empty
\* value survives cleanup: every create_cluster that begins with it set makes
\* no call, and while it is set no step creates the cluster again.  (A
\* create_cluster that returned leaving master_url None, no marker line
\* having been found, does not make later calls no-ops.)
C22_NoOpAfterEndpointAndCleanup ==
  /\ []C22_CleanupFrame
  /\ [][C22_CleanupStep]_vars
  /\ [](\A t \in Threads :
          (op[t] = "create_cluster" /\ Truthy(pre[t].master_url)) => NoOp(t))
  /\ [][Truthy(master_url) => cluster' # "CREATING"]_vars

\* A create_cluster found the endpoint, a cleanup deleted the cluster and
\* its staging objects, and a later create_cluster has returned.
C22_Witness ==
  /\ lifecycle = "deleted"
  /\ Finished(Main, "create_cluster")
  /\ Truthy(pre[Main].master_url)
  /\ cluster = "NONE"
  /\ Truthy(staging_directory)

\* No thread is inside a method of the manager.
Quiescent == \A t \in Threads : pc[t] \in {"idle", "done"}

\* The positions in calls[t], after the create RPC, of the calls that failed.
FailedResolution(t) ==
  {i \in 2..Len(calls[t]) : calls[t][i].api # "assign" /\ calls[t][i].out # Ok}

\* In a create_cluster whose create RPC returned, a call of the resolution
\* that fails is the last one: create_cluster has raised and left master_url
\* and dashboard None.
C23_FailedResolutionRaises ==
  \A t \in Threads :
    (CreateRpcEnded(t, Ok) /\ FailedResolution(t) # {}) =>
      /\ FailedResolution(t) = {Len(calls[t])}
      /\ pc[t] = "done"
      /\ result[t].kind = "raise"
      /\ master_url = None
      /\ dashboard = None

\* C23: whenever every create_cluster and cleanup call made so far has
\* returned or raised, master_url is None exactly when dashboard is None;
\* and when the create RPC succeeds and a call of the staging or endpoint
\* resolution fails (a get-cluster answered 404 while polling, say), the
\* create_cluster raises and both fields stay None.
C23_MasterUrlSetIffDashboardSet ==
  /\ Quiescent => (master_url = None <=> dashboard = None)
  /\ C23_FailedResolutionRaises

\* The create RPC returned and a get-cluster call of the polling was
\* answered 404.
C23_Witness ==
  /\ Finished(Main, "create_cluster")
  /\ CreateRpcEnded(Main, Ok)
  /\ calls[Main][Len(calls[Main])].out = ApiError(404)
  /\ calls[Main][Len(calls[Main])].by = "wait_for_cluster_to_provision"
  /\ result[Main].kind = "raise"
  /\ master_url = None

\* No entry of a call writes master_url or dashboard unless the create RPC
\* of that call returned success.
C24_WriterCreated ==
  \A t \in Threads :
    \A i \in 1..Len(calls[t]) :
      (calls[t][i].api = "assign" /\ calls[t][i].req[1] \in {"master_url", "dashboard"}) =>
        CreateRpcEnded(t, Ok)

\* A step that changes master_url or dashboard is a step of a call whose
\* create RPC returned success, and that call logs both assignments.
C24_WriteStep ==
  (master_url' # master_url \/ dashboard' # dashboard) =>
    \E t \in Threads :
      /\ CreateRpcEnded(t, Ok)
      /\ {"master_url", "dashboard"} \subseteq Assigned(t)

\* A call whose create RPC was answered 409 has made no other call, has
\* assigned nothing and has returned.
C24_ConflictResolvesNothing ==
  \A t \in Threads :
    CreateRpcEnded(t, ApiError(409)) =>
      /\ Len(calls[t]) = 1
      /\ pc[t] = "done"
      /\ result[t].kind = "return"

\* C24: in every interleaving of two create_cluster calls on one manager,
\* master_url and dashboard are written only by a call whose own create RPC
\* returned success; a call whose create RPC was answered 409 writes nothing
\* and resolves nothing.
C24_OnlyTheCreatorWrites ==
  /\ []C24_WriterCreated
  /\ []C24_ConflictResolvesNothing
  /\ [][C24_WriteStep]_vars

\* Both calls passed the guard; one created the cluster and has written the
\* endpoint it resolved, the other was answered 409 and has returned.
C24_Witness ==
  \E t, u \in Threads :
    /\ t # u
    /\ Finished(t, "create_cluster")
    /\ CreateRpcEnded(t, Ok)
    /\ Truthy(master_url)
    /\ Finished(u, "create_cluster")
    /\ CreateRpcEnded(u, ApiError(409))
    /\ pre[u].master_url = None

====
